---- MODULE Spec2Model ----
(***************************************************************************)
(* Model of zenoh-ext's FetchingSubscriber (querying_subscriber.rs): the   *)
(* MergeQueue, the InnerState shared behind one Mutex, the live-sample     *)
(* callback of the subscription, the reply sink handed to a fetch function *)
(* and the RepliesHandler whose drop releases a fetch and drains the       *)
(* queue.                                                                  *)
(*                                                                         *)
(* Every handler of the source takes the Mutex of InnerState on its first  *)
(* line and keeps the guard until it returns, so each handler is one       *)
(* atomic action in Spec and in SpecLifecycle, which adds the builder and  *)
(* the end of the handle. SpecLock follows the same handlers statement by  *)
(* statement on concurrent threads, the Mutex being part of the state.     *)
(***************************************************************************)
EXTENDS Integers, Sequences, FiniteSets, TLC

(* ------------------------------ bounds -------------------------------- *)

\* the time values of the timestamps and the readings of the clock: 1..MaxTs
MaxTs == 2
\* number of RepliesHandler values alive at the same time
MaxFetches == 2
\* number of samples held by the sink and the merge queue together
MaxSamples == 3
\* number of samples that arrive while the threads are followed step by step;
\* where a batch is followed with what competes with it, number of samples that
\* have arrived and are not yet delivered
MaxArrivals == 2

(* ------------------------------ samples ------------------------------- *)

\* Option<Timestamp>::None
NoTs == <<>>
\* zenoh ids, as the numbers their bytes stand for: the id of the local
\* session, the id of a node that is less and the id of a node that is greater
ZidBelow == 1
SessionId == 2
ZidAbove == 3
Ids == {ZidBelow, SessionId, ZidAbove}
\* Timestamp: (time, id); the timestamps of the samples are those of the local
\* session at every time value and those of the other nodes at the first one
Timestamps == {ts \in (1..MaxTs) \X Ids : ts[2] = SessionId \/ ts[1] = 1}
\* the readings of SystemTime::now
Times == {ts[1] : ts \in Timestamps}
\* what a sample carries besides its timestamp (key expression, payload, kind)
Data == {"a", "b"}
Samples == [ts : Timestamps \cup {NoTs}, data : Data]
NoSample == [ts |-> NoTs, data |-> "-"]

\* the results a fetch function can return: Ok(()) or one of two errors
Errors == {"e1", "e2"}
Results == {"ok"} \cup Errors

\* Ord of the ids: the order of their values, wherever the local id stands
IdLess(a, b) == a < b
\* Ord of Timestamp, the key order of the BTreeMap: time first, then id
TsLess(a, b) == a[1] < b[1] \/ (a[1] = b[1] /\ IdLess(a[2], b[2]))

(* ----------------------------- MergeQueue ----------------------------- *)

\* BTreeMap::new
BTreeMapNew == [k \in {} |-> NoSample]

\* MergeQueue::new
MergeQueueNew == [untimestamped |-> <<>>, timstamped |-> BTreeMapNew]

\* MergeQueue::len
MergeQueueLen(q) == Len(q.untimestamped) + Cardinality(DOMAIN q.timstamped)

\* BTreeMap::insert(ts, sample) in the place of entry(ts).or_insert(sample):
\* the last sample pushed with a timestamp replaces the first
EntryInsert(map, ts, sample) ==
    [k \in DOMAIN map \cup {ts} |-> IF k = ts THEN sample ELSE map[k]]

\* BTreeMap::entry(ts).or_insert(sample)
EntryOrInsert(map, ts, sample) ==
    IF ts \in DOMAIN map
    THEN map
    ELSE [k \in DOMAIN map \cup {ts} |-> IF k = ts THEN sample ELSE map[k]]

\* MergeQueue::push without the test of the timestamp: every sample is appended
\* to the untimestamped partition
MergeQueuePushBack(q, sample) ==
    [q EXCEPT !.untimestamped = Append(@, sample)]

\* MergeQueue::push into one partition kept in reverse arrival order
MergeQueuePushFront(q, sample) ==
    [q EXCEPT !.untimestamped = <<sample>> \o @]

\* MergeQueue::push
MergeQueuePush(q, sample) ==
    IF sample.ts # NoTs
    THEN [q EXCEPT !.timstamped = EntryOrInsert(@, sample.ts, sample)]
    ELSE [q EXCEPT !.untimestamped = Append(@, sample)]

\* the values of the map in descending order of their keys
RECURSIVE IntoValuesDescending(_)
IntoValuesDescending(map) ==
    IF DOMAIN map = {}
    THEN <<>>
    ELSE LET first == CHOOSE k \in DOMAIN map :
                          \A o \in DOMAIN map : o = k \/ TsLess(o, k)
             rest  == [k \in DOMAIN map \ {first} |-> map[k]]
         IN  <<map[first]>> \o IntoValuesDescending(rest)

\* BTreeMap::into_values: the values in ascending order of their keys
RECURSIVE IntoValues(_)
IntoValues(map) ==
    IF DOMAIN map = {}
    THEN <<>>
    ELSE LET first == CHOOSE k \in DOMAIN map :
                          \A o \in DOMAIN map : o = k \/ TsLess(k, o)
             rest  == [k \in DOMAIN map \ {first} |-> map[k]]
         IN  <<map[first]>> \o IntoValues(rest)

\* MergeQueue::drain that swaps only the untimestamped partition out: the map
\* stays in the queue
MergeQueueAfterDrainKeepsMap(q) == [q EXCEPT !.untimestamped = <<>>]

\* MergeQueue::drain, what it leaves in the queue: the new VecDeque and the new
\* BTreeMap swapped in
MergeQueueAfterDrain(q) == [untimestamped |-> <<>>, timstamped |-> BTreeMapNew]

\* MergeQueue::drain: the MergeQueueValues made of both swapped-out partitions
MergeQueueDrain(q) ==
    [untimestamped |-> q.untimestamped, timstamped |-> IntoValues(q.timstamped)]

\* MergeQueueValues::next with the two sources swapped: the timestamped values
\* first, `or_else` the untimestamped ones
MergeQueueValuesNextTimestampedFirst(it) ==
    IF it.timstamped # <<>>
    THEN [item |-> Head(it.timstamped),
          rest |-> [it EXCEPT !.timstamped = Tail(@)]]
    ELSE IF it.untimestamped # <<>>
    THEN [item |-> Head(it.untimestamped),
          rest |-> [it EXCEPT !.untimestamped = Tail(@)]]
    ELSE [item |-> NoSample, rest |-> it]

\* Iterator::next of MergeQueueValues: [item, rest], item = NoSample at the end
MergeQueueValuesNext(it) ==
    IF it.untimestamped # <<>>
    THEN [item |-> Head(it.untimestamped),
          rest |-> [it EXCEPT !.untimestamped = Tail(@)]]
    ELSE IF it.timstamped # <<>>
    THEN [item |-> Head(it.timstamped),
          rest |-> [it EXCEPT !.timstamped = Tail(@)]]
    ELSE [item |-> NoSample, rest |-> it]

\* the loop of the drain left at its first call of the callback, as
\* `self.callback.call(s)?` would leave it on a closed sink
CallbackCallAllFirstOnly(it, sink) ==
    LET n == MergeQueueValuesNext(it)
    IN  IF n.item = NoSample THEN sink ELSE Append(sink, n.item)

\* `for s in state.merge_queue.drain() { self.callback.call(s) }`:
\* the sink's history after the loop
RECURSIVE CallbackCallAll(_, _)
CallbackCallAll(it, sink) ==
    LET n == MergeQueueValuesNext(it)
    IN  IF n.item = NoSample
        THEN sink
        ELSE CallbackCallAll(n.rest, Append(sink, n.item))

(* ------------------------------- state -------------------------------- *)

VARIABLES
    state,              \* InnerState behind Arc<Mutex<..>>: pending_fetches, merge_queue
    delivered,          \* the samples `callback.call` was invoked with, in call order
    handlers,           \* the RepliesHandler values alive, counted by where they are
                        \* (registered, running, lent, detached), and the fetch
                        \* functions that run on after theirs was dropped (returning)
    subscriber,         \* the live Subscriber<()> declared by `new`
    pc,                 \* where FetchingSubscriber::new stands
    undeclare_on_drop,  \* conf.undeclare_on_drop
    last,               \* the operation that ran last, its input and what it returned
    mutex,              \* the thread that holds the Mutex of InnerState
    threads             \* where each thread stands inside the handler it runs

vars == <<state, delivered, handlers, subscriber, pc, undeclare_on_drop, last,
          mutex, threads>>

\* InnerState { pending_fetches: 0, merge_queue: MergeQueue::new() }
InnerStateNew == [pending_fetches |-> 0, merge_queue |-> MergeQueueNew]

\* the operation that ran, the sample it was called with (NoSample: none), the
\* clock reading it used (0: none) and what it returned to its caller
Event(op, res, s, now) == [op |-> op, res |-> res, s |-> s, now |-> now]

\* the RepliesHandler values alive
Alive(hs) == hs.registered + hs.running + hs.lent + hs.detached

(* ------------------- the handlers, on (state, sink) ------------------- *)

\* register_handler without `pending_fetches += 1`
register_handler_no_increment(st) == st

\* register_handler: one more pending fetch
register_handler(st) == [st EXCEPT !.pending_fetches = @ + 1]

\* sub_callback without the test of pending_fetches: every live sample goes
\* straight to the callback
sub_callback_no_test(st, sink, s, now) ==
    [state |-> st, sink |-> Append(sink, s)]

\* sub_callback with the timestamp made before the test of pending_fetches: the
\* sample handed to the callback is the stamped one
sub_callback_stamp_first(st, sink, s, now) ==
    LET timestamp == IF s.ts # NoTs THEN s.ts ELSE <<now, SessionId>>
        stamped   == [s EXCEPT !.ts = timestamp]
    IN  IF st.pending_fetches = 0
        THEN [state |-> st, sink |-> Append(sink, stamped)]
        ELSE [state |-> [st EXCEPT !.merge_queue = MergeQueuePush(@, stamped)],
              sink  |-> sink]

\* sub_callback that buffers every live sample, a fetch pending or not
sub_callback_always_buffers(st, sink, s, now) ==
    LET timestamp == IF s.ts # NoTs THEN s.ts ELSE <<now, SessionId>>
    IN  [state |-> [st EXCEPT !.merge_queue =
                        MergeQueuePush(@, [s EXCEPT !.ts = timestamp])],
         sink  |-> sink]

\* sub_callback that buffers the sample as it arrived, making no timestamp
sub_callback_no_stamp(st, sink, s, now) ==
    IF st.pending_fetches = 0
    THEN [state |-> st, sink |-> Append(sink, s)]
    ELSE [state |-> [st EXCEPT !.merge_queue = MergeQueuePush(@, s)],
          sink  |-> sink]

\* sub_callback, the callback of the live subscription
sub_callback(st, sink, s, now) ==
    IF st.pending_fetches = 0
    THEN [state |-> st, sink |-> Append(sink, s)]
    ELSE LET timestamp == IF s.ts # NoTs THEN s.ts ELSE <<now, SessionId>>
         IN  [state |-> [st EXCEPT !.merge_queue =
                             MergeQueuePush(@, [s EXCEPT !.ts = timestamp])],
              sink  |-> sink]

\* a reply sink that stamps a reply that has no timestamp, as sub_callback does
\* with a live sample
reply_sink_stamps(st, s) ==
    [st EXCEPT !.merge_queue =
        MergeQueuePush(@, [s EXCEPT !.ts = IF s.ts = NoTs THEN <<1, SessionId>> ELSE s.ts])]

\* the closure run_fetch hands to the fetch function, on a reply whose
\* extract() is Ok(s)
reply_sink(st, s) == [st EXCEPT !.merge_queue = MergeQueuePush(@, s)]

\* Drop for RepliesHandler without the test `pending_fetches == 0`: every
\* release drains and delivers
replies_handler_drop_no_test(st, sink) ==
    [state |-> [pending_fetches |-> st.pending_fetches - 1,
                merge_queue     |-> MergeQueueAfterDrain(st.merge_queue)],
     sink  |-> CallbackCallAll(MergeQueueDrain(st.merge_queue), sink)]

\* Drop for RepliesHandler without `pending_fetches -= 1`
replies_handler_drop_no_decrement(st, sink) ==
    IF st.pending_fetches = 0
    THEN [state |-> [st EXCEPT !.merge_queue = MergeQueueAfterDrain(@)],
          sink  |-> CallbackCallAll(MergeQueueDrain(st.merge_queue), sink)]
    ELSE [state |-> st, sink |-> sink]

\* Drop for RepliesHandler that only decrements: the queue is never drained
replies_handler_drop_no_drain(st, sink) ==
    [state |-> [st EXCEPT !.pending_fetches = @ - 1], sink |-> sink]

\* Drop for RepliesHandler
replies_handler_drop(st, sink) ==
    LET pending == st.pending_fetches - 1
    IN  IF pending = 0
        THEN [state |-> [pending_fetches |-> pending,
                        merge_queue     |-> MergeQueueAfterDrain(st.merge_queue)],
              sink  |-> CallbackCallAll(MergeQueueDrain(st.merge_queue), sink)]
        ELSE [state |-> [st EXCEPT !.pending_fetches = pending],
              sink  |-> sink]

\* run_fetch that drops the value of the call: `let _ = (fetch)(..); Ok(())`
run_fetch_ok(fetch_result) == "ok"

\* run_fetch: the value of the call `(fetch)(..)` is the value of run_fetch
run_fetch(fetch_result) == fetch_result

\* Drop for Subscriber<()>: undeclared when the flag is set
subscriber_drop(sub, flag) == IF flag /\ sub = "declared" THEN "undeclared" ELSE sub

(* ------------------------------ threads ------------------------------- *)

\* no thread: the Mutex is free
NoThread == <<"none", 0>>
\* the threads that call fetch(): one fetch each at a time
FetchThreads == {<<"fetch", i>> : i \in 1..MaxFetches}
\* the threads of the session that call sub_callback
RxThreads == {<<"rx", 1>>, <<"rx", 2>>}
Threads == FetchThreads \cup RxThreads

\* a MergeQueueValues with nothing left
NoBatch == [untimestamped |-> <<>>, timstamped |-> <<>>]

\* a thread outside every handler; `s` is the sample a handler was called with,
\* `batch` the MergeQueueValues a draining drop iterates on
ThreadIdle == [pc |-> "idle", s |-> NoSample, batch |-> NoBatch]

\* `threads` holds the threads that are inside a handler or own a
\* RepliesHandler; every other thread is idle
NoThreads == [t \in {} |-> ThreadIdle]
Local(ths, t) == IF t \in DOMAIN ths THEN ths[t] ELSE ThreadIdle
\* the thread t goes on with the locals th / leaves its handler with nothing
Enter(t, th) == [u \in DOMAIN threads \cup {t} |-> IF u = t THEN th ELSE threads[u]]
Leave(t) == [u \in DOMAIN threads \ {t} |-> threads[u]]

\* zlock!(state) that never waits: the Mutex excludes nobody
MutexFreeNotChecked(m) == TRUE

\* zlock!(state) returns only while no other thread holds the guard
MutexFree(m) == m = NoThread

(* ------------------------------- Init --------------------------------- *)

Init ==
    /\ state = InnerStateNew
    /\ delivered = <<>>
    /\ handlers = [registered |-> 0, running |-> 0, lent |-> 0, returning |-> 0, detached |-> 0]
    /\ subscriber = "none"
    /\ pc = "new"
    /\ undeclare_on_drop \in BOOLEAN
    /\ last = Event("init", "ok", NoSample, 0)
    /\ mutex = NoThread
    /\ threads = NoThreads

\* room left for one more sample
Room == Len(delivered) + MergeQueueLen(state.merge_queue) < MaxSamples

(* ------------------------------ actions ------------------------------- *)

\* `new` that creates the RepliesHandler of the initial fetch without taking its
\* credit, so that the subscription is declared with no fetch pending
NewRegisterNoCredit(key_expr) ==
    /\ pc = "new"
    /\ IF key_expr = "ok"
       THEN /\ handlers' = [handlers EXCEPT !.registered = @ + 1]
            /\ pc' = "registered"
       ELSE /\ pc' = "failed"
            /\ UNCHANGED handlers
    /\ last' = Event("new_register", key_expr, NoSample, 0)
    /\ UNCHANGED <<state, delivered, subscriber, undeclare_on_drop>>
    /\ UNCHANGED <<mutex, threads>>

\* FetchingSubscriber::new up to register_handler: `conf.key_expr?`, then the
\* credit of the initial fetch
NewRegister(key_expr) ==
    /\ pc = "new"
    /\ IF key_expr = "ok"
       THEN /\ state' = register_handler(state)
            /\ handlers' = [handlers EXCEPT !.registered = @ + 1]
            /\ pc' = "registered"
       ELSE /\ pc' = "failed"
            /\ UNCHANGED <<state, handlers>>
    /\ last' = Event("new_register", key_expr, NoSample, 0)
    /\ UNCHANGED <<delivered, subscriber, undeclare_on_drop>>
    /\ UNCHANGED <<mutex, threads>>

\* FetchingSubscriber::new whose `handler` is never dropped when
\* declare_subscriber(..).wait() fails
NewDeclareLeak(declared) ==
    /\ pc = "registered"
    /\ IF declared = "ok"
       THEN /\ subscriber' = "declared"
            /\ handlers' = [handlers EXCEPT !.registered = @ - 1, !.running = @ + 1]
            /\ pc' = "fetching"
       ELSE /\ handlers' = [handlers EXCEPT !.registered = @ - 1]
            /\ pc' = "failed"
            /\ UNCHANGED subscriber
    /\ last' = Event("new_declare", declared, NoSample, 0)
    /\ UNCHANGED <<state, delivered, undeclare_on_drop>>
    /\ UNCHANGED <<mutex, threads>>

\* FetchingSubscriber::new, declare_subscriber(..).wait()?: on an error `handler`
\* goes out of scope; otherwise run_fetch is entered with it
NewDeclare(declared) ==
    /\ pc = "registered"
    /\ IF declared = "ok"
       THEN /\ subscriber' = "declared"
            /\ handlers' = [handlers EXCEPT !.registered = @ - 1, !.running = @ + 1]
            /\ pc' = "fetching"
            /\ UNCHANGED <<state, delivered>>
       ELSE /\ LET d == replies_handler_drop(state, delivered)
               IN  state' = d.state /\ delivered' = d.sink
            /\ handlers' = [handlers EXCEPT !.registered = @ - 1]
            /\ pc' = "failed"
            /\ UNCHANGED subscriber
    /\ last' = Event("new_declare", declared, NoSample, 0)
    /\ UNCHANGED undeclare_on_drop
    /\ UNCHANGED <<mutex, threads>>

\* where `new` stands once it has returned the handle: FetchingSubscriber::fetch
\* takes &self and gives a FetchBuilder that owns clones of `state` and
\* `callback`, so that a builder made while the handle was there can be waited
\* on after the handle was undeclared or dropped
HandleReturned == {"ready", "undeclared", "dropped"}

\* FetchBuilder::wait up to the call of the fetch function
FetchStart ==
    /\ pc \in HandleReturned
    /\ Alive(handlers) + handlers.returning < MaxFetches
    /\ state' = register_handler(state)
    /\ handlers' = [handlers EXCEPT !.running = @ + 1]
    /\ last' = Event("fetch_start", "ok", NoSample, 0)
    /\ UNCHANGED <<delivered, subscriber, pc, undeclare_on_drop>>
    /\ UNCHANGED <<mutex, threads>>

\* the reply sink of a fetch is called with a reply that extracts to sample s
FetchReply(s) ==
    /\ handlers.running + handlers.lent + handlers.detached > 0
    /\ Room
    /\ state' = reply_sink(state, s)
    /\ last' = Event("fetch_reply", "ok", s, 0)
    /\ UNCHANGED <<delivered, handlers, subscriber, pc, undeclare_on_drop>>
    /\ UNCHANGED <<mutex, threads>>

\* the reply sink of a fetch whose extract() error ends the fetch: the sink gives
\* its RepliesHandler up
FetchReplyErrEndsFetch ==
    /\ handlers.running + handlers.lent + handlers.detached > 0
    /\ LET d == replies_handler_drop(state, delivered)
       IN  state' = d.state /\ delivered' = d.sink
    /\ handlers' = IF handlers.running > 0
                   THEN [handlers EXCEPT !.running = @ - 1, !.returning = @ + 1]
                   ELSE IF handlers.lent > 0
                   THEN [handlers EXCEPT !.lent = @ - 1, !.returning = @ + 1]
                   ELSE [handlers EXCEPT !.detached = @ - 1]
    /\ last' = Event("fetch_reply_err", "ok", NoSample, 0)
    /\ UNCHANGED <<subscriber, pc, undeclare_on_drop>>
    /\ UNCHANGED <<mutex, threads>>

\* the reply sink of a fetch is called with a reply whose extract() is Err
FetchReplyErr ==
    /\ handlers.running + handlers.lent + handlers.detached > 0
    /\ last' = Event("fetch_reply_err", "ok", NoSample, 0)
    /\ UNCHANGED <<state, delivered, handlers, subscriber, pc, undeclare_on_drop>>
    /\ UNCHANGED <<mutex, threads>>

\* a fetch function that forgets its sink instead of dropping it: the
\* RepliesHandler inside is never dropped
FetchSinkForgotten(keep) ==
    /\ handlers.running > 0
    /\ IF keep
       THEN handlers' = [handlers EXCEPT !.running = @ - 1, !.lent = @ + 1]
       ELSE handlers' = [handlers EXCEPT !.running = @ - 1, !.returning = @ + 1]
    /\ UNCHANGED <<state, delivered>>
    /\ last' = Event("fetch_sink", IF keep THEN "moved" ELSE "dropped", NoSample, 0)
    /\ UNCHANGED <<subscriber, pc, undeclare_on_drop>>
    /\ UNCHANGED <<mutex, threads>>

\* the boxed sink run_fetch gave to a fetch function leaves the function, which
\* runs on: the function drops it, at the latest when its body ends (keep =
\* FALSE: the RepliesHandler inside is dropped), or moves it to another owner,
\* as Session::get does with its callback (keep = TRUE)
FetchSink(keep) ==
    /\ handlers.running > 0
    /\ IF keep
       THEN /\ handlers' = [handlers EXCEPT !.running = @ - 1, !.lent = @ + 1]
            /\ UNCHANGED <<state, delivered>>
       ELSE /\ LET d == replies_handler_drop(state, delivered)
               IN  state' = d.state /\ delivered' = d.sink
            /\ handlers' = [handlers EXCEPT !.running = @ - 1, !.returning = @ + 1]
    /\ last' = Event("fetch_sink", IF keep THEN "moved" ELSE "dropped", NoSample, 0)
    /\ UNCHANGED <<subscriber, pc, undeclare_on_drop>>
    /\ UNCHANGED <<mutex, threads>>

\* a fetch function returns `result` to run_fetch, its sink dropped (keep =
\* FALSE) or alive at the owner it was moved to (keep = TRUE).
\* While `new` runs, the fetch function is the one of the initial fetch, and
\* this is where `new` returns: `run_fetch(conf.fetch, handler)?`.
FetchReturn(result, keep) ==
    /\ IF keep
       THEN /\ handlers.lent > 0
            /\ handlers' = [handlers EXCEPT !.lent = @ - 1, !.detached = @ + 1]
       ELSE /\ handlers.returning > 0
            /\ handlers' = [handlers EXCEPT !.returning = @ - 1]
    /\ IF pc = "fetching"
       THEN IF run_fetch(result) = "ok"
            THEN pc' = "ready" /\ UNCHANGED subscriber
            ELSE /\ pc' = "failed"
                 /\ subscriber' = subscriber_drop(subscriber, undeclare_on_drop)
       ELSE UNCHANGED <<pc, subscriber>>
    /\ last' = Event("fetch_return", run_fetch(result), NoSample, 0)
    /\ UNCHANGED <<state, delivered, undeclare_on_drop>>
    /\ UNCHANGED <<mutex, threads>>

\* the owner a sink was moved to drops it, while the fetch function of the
\* sink still runs (early = TRUE) or after it has returned
SinkDrop(early) ==
    /\ IF early
       THEN /\ handlers.lent > 0
            /\ handlers' = [handlers EXCEPT !.lent = @ - 1, !.returning = @ + 1]
       ELSE /\ handlers.detached > 0
            /\ handlers' = [handlers EXCEPT !.detached = @ - 1]
    /\ LET d == replies_handler_drop(state, delivered)
       IN  state' = d.state /\ delivered' = d.sink
    /\ last' = Event("sink_drop", "ok", NoSample, 0)
    /\ UNCHANGED <<subscriber, pc, undeclare_on_drop>>
    /\ UNCHANGED <<mutex, threads>>

\* the clock readings that matter to sub_callback called with s: the reading
\* is used only for a buffered sample that has no timestamp, 0 stands for a
\* reading that is not taken or not used
ClockReadings(s) == IF state.pending_fetches > 0 /\ s.ts = NoTs THEN Times ELSE {0}

\* the session calls sub_callback with a live sample; `now` is SystemTime::now()
LiveSample(s, now) ==
    /\ subscriber = "declared"
    /\ Room
    /\ now \in ClockReadings(s)
    /\ LET r == sub_callback(state, delivered, s, now)
       IN  state' = r.state /\ delivered' = r.sink
    /\ last' = Event("live", "ok", s,
                     IF state.pending_fetches > 0 /\ s.ts = NoTs THEN now ELSE 0)
    /\ UNCHANGED <<handlers, subscriber, pc, undeclare_on_drop>>
    /\ UNCHANGED <<mutex, threads>>

Next ==
    \/ \E r \in Results : NewRegister(r)
    \/ \E r \in Results : NewDeclare(r)
    \/ FetchStart
    \/ \E s \in Samples : FetchReply(s)
    \/ FetchReplyErr
    \/ \E keep \in BOOLEAN : FetchSink(keep)
    \/ \E r \in Results, keep \in BOOLEAN : FetchReturn(r, keep)
    \/ \E early \in BOOLEAN : SinkDrop(early)
    \/ \E s \in Samples, now \in Times \cup {0} : LiveSample(s, now)

Spec == Init /\ [][Next]_vars

(* --------------- the builder and the end of the handle ----------------- *)

\* FetchingSubscriberBuilder::with: the handler is replaced, the flag is kept
builder_with(flag) == flag

\* FetchingSubscriberBuilder::undeclare_on_drop without the assignment
builder_undeclare_on_drop_ignored(flag, b) == flag

\* FetchingSubscriberBuilder::undeclare_on_drop
builder_undeclare_on_drop(flag, b) == b

\* FetchingSubscriberBuilder::callback: with(callback).undeclare_on_drop(false)
builder_callback(flag) == builder_undeclare_on_drop(builder_with(flag), FALSE)

\* FetchingSubscriberBuilder::callback_mut: callback(locked(callback))
builder_callback_mut(flag) == builder_callback(flag)

\* Subscriber::undeclare
subscriber_undeclare(sub) == "undeclared"

\* the builder's callback / callback_mut is called before wait()
BuilderCallback(mut) ==
    /\ pc = "new"
    /\ undeclare_on_drop' = IF mut THEN builder_callback_mut(undeclare_on_drop)
                                   ELSE builder_callback(undeclare_on_drop)
    /\ last' = Event("builder_callback", "ok", NoSample, 0)
    /\ UNCHANGED <<state, delivered, handlers, subscriber, pc>>
    /\ UNCHANGED <<mutex, threads>>

\* the builder's undeclare_on_drop(b) is called before wait()
BuilderUndeclareOnDrop(b) ==
    /\ pc = "new"
    /\ undeclare_on_drop' = builder_undeclare_on_drop(undeclare_on_drop, b)
    /\ last' = Event("builder_undeclare_on_drop", "ok", NoSample, 0)
    /\ UNCHANGED <<state, delivered, handlers, subscriber, pc>>
    /\ UNCHANGED <<mutex, threads>>

\* FetchingSubscriber::undeclare that leaves the live subscription declared
UndeclareKeepsRouting ==
    /\ pc = "ready"
    /\ pc' = "undeclared"
    /\ last' = Event("undeclare", "ok", NoSample, 0)
    /\ UNCHANGED <<state, delivered, handlers, subscriber, undeclare_on_drop>>
    /\ UNCHANGED <<mutex, threads>>

\* FetchingSubscriber::undeclare: the handle is consumed and its live
\* subscription undeclared; InnerState lives on in the sinks of the fetches
Undeclare ==
    /\ pc = "ready"
    /\ subscriber' = subscriber_undeclare(subscriber)
    /\ pc' = "undeclared"
    /\ last' = Event("undeclare", "ok", NoSample, 0)
    /\ UNCHANGED <<state, delivered, handlers, undeclare_on_drop>>
    /\ UNCHANGED <<mutex, threads>>

\* the FetchingSubscriber is dropped: its field `subscriber` is dropped with it
DropSubscriber ==
    /\ pc = "ready"
    /\ subscriber' = subscriber_drop(subscriber, undeclare_on_drop)
    /\ pc' = "dropped"
    /\ last' = Event("drop", "ok", NoSample, 0)
    /\ UNCHANGED <<state, delivered, handlers, undeclare_on_drop>>
    /\ UNCHANGED <<mutex, threads>>

NextLifecycle ==
    \/ Next
    \/ \E mut \in BOOLEAN : BuilderCallback(mut)
    \/ \E b \in BOOLEAN : BuilderUndeclareOnDrop(b)
    \/ Undeclare
    \/ DropSubscriber

SpecLifecycle == Init /\ [][NextLifecycle]_vars

(* ------------- the handlers, statement by statement, on threads -------- *)

\* the subscriber after `new` has returned Ok, its initial fetch released
InitLock ==
    /\ state = InnerStateNew
    /\ delivered = <<>>
    /\ handlers = [registered |-> 0, running |-> 0, lent |-> 0, returning |-> 0, detached |-> 0]
    /\ subscriber = "declared"
    /\ pc = "ready"
    /\ undeclare_on_drop = TRUE
    /\ last = Event("init", "ok", NoSample, 0)
    /\ mutex = NoThread
    /\ threads = NoThreads

\* the samples a thread holds: the one its handler was called with, not yet
\* pushed or delivered, and those left in the MergeQueueValues it iterates on
InHand(th) ==
    (IF th.pc \in {"sub_locked", "sub_call", "sub_push", "reply_locked"} THEN 1 ELSE 0)
        + Len(th.batch.untimestamped) + Len(th.batch.timstamped)

RECURSIVE InHandAll(_)
InHandAll(ts) ==
    IF ts = {} THEN 0
    ELSE LET t == CHOOSE x \in ts : TRUE
         IN  InHand(Local(threads, t)) + InHandAll(ts \ {t})

\* room left for one more arrival
RoomLock ==
    Len(delivered) + MergeQueueLen(state.merge_queue) + InHandAll(Threads) < MaxArrivals

\* room left for one more arrival beside a batch: for one more sample that
\* waits, in the queue or in the hand of a thread, and for one more in all
RoomBatch ==
    /\ MergeQueueLen(state.merge_queue) + InHandAll(Threads) < MaxArrivals
    /\ Len(delivered) + MergeQueueLen(state.merge_queue) + InHandAll(Threads) < MaxSamples

\* sub_callback, `let state = &mut zlock!(state);`, for a sample that arrives
\* while there is room
SubCallbackLockIf(room, t, s) ==
    /\ Local(threads, t).pc = "idle"
    /\ room
    /\ MutexFree(mutex)
    /\ mutex' = t
    /\ threads' = Enter(t, [ThreadIdle EXCEPT !.pc = "sub_locked", !.s = s])
    /\ last' = Event("sub_lock", "ok", NoSample, 0)
    /\ UNCHANGED <<state, delivered, handlers, subscriber, pc, undeclare_on_drop>>

\* sub_callback, `let state = &mut zlock!(state);`
SubCallbackLock(t, s) == SubCallbackLockIf(RoomLock, t, s)

\* sub_callback, `if state.pending_fetches == 0`
SubCallbackTest(t) ==
    /\ Local(threads, t).pc = "sub_locked"
    /\ threads' = Enter(t, [Local(threads, t) EXCEPT !.pc =
                       IF state.pending_fetches = 0 THEN "sub_call" ELSE "sub_push"])
    /\ last' = Event("sub_test", "ok", NoSample, 0)
    /\ UNCHANGED <<state, delivered, handlers, subscriber, pc, undeclare_on_drop, mutex>>

\* sub_callback, `callback.call(s)` is entered
SubCallbackCall(t) ==
    /\ Local(threads, t).pc = "sub_call"
    /\ delivered' = Append(delivered, Local(threads, t).s)
    /\ threads' = Enter(t, [Local(threads, t) EXCEPT !.pc = "sub_calling"])
    /\ last' = Event("sub_call", "ok", Local(threads, t).s, 0)
    /\ UNCHANGED <<state, handlers, subscriber, pc, undeclare_on_drop, mutex>>

\* sub_callback, the else branch: the timestamp and `state.merge_queue.push(..)`
SubCallbackPush(t, now) ==
    /\ Local(threads, t).pc = "sub_push"
    /\ LET s == Local(threads, t).s
           timestamp == IF s.ts # NoTs THEN s.ts ELSE <<now, SessionId>>
           stamped == [s EXCEPT !.ts = timestamp]
       IN  /\ state' = [state EXCEPT !.merge_queue = MergeQueuePush(@, stamped)]
           /\ last' = Event("sub_push", "ok", stamped, 0)
    /\ threads' = Enter(t, [Local(threads, t) EXCEPT !.pc = "sub_pushed"])
    /\ UNCHANGED <<delivered, handlers, subscriber, pc, undeclare_on_drop, mutex>>

\* sub_callback returns: the callback has returned or the push is done, and
\* the guard goes out of scope
SubCallbackReturn(t) ==
    /\ Local(threads, t).pc \in {"sub_calling", "sub_pushed"}
    /\ threads' = Leave(t)
    /\ mutex' = NoThread
    /\ last' = Event("sub_return", "ok", NoSample, 0)
    /\ UNCHANGED <<state, delivered, handlers, subscriber, pc, undeclare_on_drop>>

\* a register_handler whose guard is kept by the thread while its fetch
\* function runs
FetchRegisterKeepsLock(t) ==
    /\ Local(threads, t).pc = "idle"
    /\ MutexFree(mutex)
    /\ state' = register_handler(state)
    /\ handlers' = [handlers EXCEPT !.running = @ + 1]
    /\ threads' = Enter(t, [Local(threads, t) EXCEPT !.pc = "fetch"])
    /\ mutex' = t
    /\ last' = Event("register", "ok", NoSample, 0)
    /\ UNCHANGED <<delivered, subscriber, pc, undeclare_on_drop>>

\* FetchBuilder::wait, register_handler: `zlock!(state).pending_fetches += 1;`
FetchRegister(t) ==
    /\ Local(threads, t).pc = "idle"
    /\ MutexFree(mutex)
    /\ state' = register_handler(state)
    /\ handlers' = [handlers EXCEPT !.running = @ + 1]
    /\ threads' = Enter(t, [Local(threads, t) EXCEPT !.pc = "fetch"])
    /\ last' = Event("register", "ok", NoSample, 0)
    /\ UNCHANGED <<delivered, subscriber, pc, undeclare_on_drop, mutex>>

\* the reply sink, Ok(s): `let mut state = zlock!(handler.state);`, for a
\* reply that arrives while there is room
ReplyLockIf(room, t, s) ==
    /\ Local(threads, t).pc = "fetch"
    /\ room
    /\ MutexFree(mutex)
    /\ mutex' = t
    /\ threads' = Enter(t, [Local(threads, t) EXCEPT !.pc = "reply_locked", !.s = s])
    /\ last' = Event("reply_lock", "ok", NoSample, 0)
    /\ UNCHANGED <<state, delivered, handlers, subscriber, pc, undeclare_on_drop>>

\* the reply sink, Ok(s): `let mut state = zlock!(handler.state);`
ReplyLock(t, s) == ReplyLockIf(RoomLock, t, s)

\* the reply sink, Ok(s): `state.merge_queue.push(s);` and the end of the arm
ReplyPush(t) ==
    /\ Local(threads, t).pc = "reply_locked"
    /\ state' = reply_sink(state, Local(threads, t).s)
    /\ threads' = Enter(t, [ThreadIdle EXCEPT !.pc = "fetch"])
    /\ mutex' = NoThread
    /\ last' = Event("reply_push", "ok", Local(threads, t).s, 0)
    /\ UNCHANGED <<delivered, handlers, subscriber, pc, undeclare_on_drop>>

\* Drop for RepliesHandler, `let mut state = zlock!(self.state);`
DropLock(t) ==
    /\ Local(threads, t).pc = "fetch"
    /\ MutexFree(mutex)
    /\ mutex' = t
    /\ threads' = Enter(t, [Local(threads, t) EXCEPT !.pc = "drop_locked"])
    /\ last' = Event("drop_lock", "ok", NoSample, 0)
    /\ UNCHANGED <<state, delivered, handlers, subscriber, pc, undeclare_on_drop>>

\* Drop for RepliesHandler, `state.pending_fetches -= 1;`
DropDecrement(t) ==
    /\ Local(threads, t).pc = "drop_locked"
    /\ state' = [state EXCEPT !.pending_fetches = @ - 1]
    /\ threads' = Enter(t, [Local(threads, t) EXCEPT !.pc = "drop_test"])
    /\ last' = Event("drop_decrement", "ok", NoSample, 0)
    /\ UNCHANGED <<delivered, handlers, subscriber, pc, undeclare_on_drop, mutex>>

\* Drop for RepliesHandler that gives the guard up once the queue is drained
\* into its local MergeQueueValues, and calls the callback without the lock
DropTestUnlocks(t) ==
    /\ Local(threads, t).pc = "drop_test"
    /\ IF state.pending_fetches = 0
       THEN /\ threads' = Enter(t, [Local(threads, t) EXCEPT
                             !.pc = "drop_drain",
                             !.batch = MergeQueueDrain(state.merge_queue)])
            /\ state' = [state EXCEPT !.merge_queue = MergeQueueAfterDrain(@)]
            /\ mutex' = NoThread
       ELSE /\ threads' = Enter(t, [Local(threads, t) EXCEPT !.pc = "drop_done"])
            /\ UNCHANGED <<state, mutex>>
    /\ last' = Event("drop_test", "ok", NoSample, 0)
    /\ UNCHANGED <<delivered, handlers, subscriber, pc, undeclare_on_drop>>

\* Drop for RepliesHandler without the drain: the release that brings the count
\* to 0 returns like any other
DropTestNeverDrains(t) ==
    /\ Local(threads, t).pc = "drop_test"
    /\ threads' = Enter(t, [Local(threads, t) EXCEPT !.pc = "drop_done"])
    /\ UNCHANGED state
    /\ last' = Event("drop_test", "ok", NoSample, 0)
    /\ UNCHANGED <<delivered, handlers, subscriber, pc, undeclare_on_drop, mutex>>

\* Drop for RepliesHandler, `if state.pending_fetches == 0` and, if so,
\* `state.merge_queue.drain()`
DropTest(t) ==
    /\ Local(threads, t).pc = "drop_test"
    /\ IF state.pending_fetches = 0
       THEN /\ threads' = Enter(t, [Local(threads, t) EXCEPT
                             !.pc = "drop_drain",
                             !.batch = MergeQueueDrain(state.merge_queue)])
            /\ state' = [state EXCEPT !.merge_queue = MergeQueueAfterDrain(@)]
       ELSE /\ threads' = Enter(t, [Local(threads, t) EXCEPT !.pc = "drop_done"])
            /\ UNCHANGED state
    /\ last' = Event("drop_test", "ok", NoSample, 0)
    /\ UNCHANGED <<delivered, handlers, subscriber, pc, undeclare_on_drop, mutex>>

\* Drop for RepliesHandler, the loop takes the next sample and
\* `self.callback.call(s)` is entered
DropCall(t) ==
    /\ Local(threads, t).pc = "drop_drain"
    /\ LET n == MergeQueueValuesNext(Local(threads, t).batch)
       IN  /\ n.item # NoSample
           /\ delivered' = Append(delivered, n.item)
           /\ threads' = Enter(t, [Local(threads, t) EXCEPT
                             !.pc = "drop_calling", !.batch = n.rest])
           /\ last' = Event("drop_call", "ok", n.item, 0)
    /\ UNCHANGED <<state, handlers, subscriber, pc, undeclare_on_drop, mutex>>

\* a drain loop that gives the guard up each time the callback returns
DropCallReturnUnlocks(t) ==
    /\ Local(threads, t).pc = "drop_calling"
    /\ threads' = Enter(t, [Local(threads, t) EXCEPT !.pc = "drop_drain"])
    /\ mutex' = NoThread
    /\ last' = Event("drop_call_return", "ok", NoSample, 0)
    /\ UNCHANGED <<state, delivered, handlers, subscriber, pc, undeclare_on_drop>>

\* Drop for RepliesHandler, `self.callback.call(s)` returns
DropCallReturn(t) ==
    /\ Local(threads, t).pc = "drop_calling"
    /\ threads' = Enter(t, [Local(threads, t) EXCEPT !.pc = "drop_drain"])
    /\ last' = Event("drop_call_return", "ok", NoSample, 0)
    /\ UNCHANGED <<state, delivered, handlers, subscriber, pc, undeclare_on_drop, mutex>>

\* Drop for RepliesHandler returns: the loop is over, or was not entered, and
\* the guard goes out of scope
DropReturn(t) ==
    /\ \/ Local(threads, t).pc = "drop_done"
       \/ /\ Local(threads, t).pc = "drop_drain"
          /\ MergeQueueValuesNext(Local(threads, t).batch).item = NoSample
    /\ threads' = Leave(t)
    /\ handlers' = [handlers EXCEPT !.running = @ - 1]
    /\ mutex' = NoThread
    /\ last' = Event("drop_return", "ok", NoSample, 0)
    /\ UNCHANGED <<state, delivered, subscriber, pc, undeclare_on_drop>>

NextLock ==
    \/ \E t \in RxThreads, s \in Samples : SubCallbackLock(t, s)
    \/ \E t \in RxThreads : SubCallbackTest(t)
    \/ \E t \in RxThreads : SubCallbackCall(t)
    \/ \E t \in RxThreads, now \in Times : SubCallbackPush(t, now)
    \/ \E t \in RxThreads : SubCallbackReturn(t)
    \/ \E t \in FetchThreads : FetchRegister(t)
    \/ \E t \in FetchThreads, s \in Samples : ReplyLock(t, s)
    \/ \E t \in FetchThreads : ReplyPush(t)
    \/ \E t \in FetchThreads : DropLock(t)
    \/ \E t \in FetchThreads : DropDecrement(t)
    \/ \E t \in FetchThreads : DropTest(t)
    \/ \E t \in FetchThreads : DropCall(t)
    \/ \E t \in FetchThreads : DropCallReturn(t)
    \/ \E t \in FetchThreads : DropReturn(t)

SpecLock == InitLock /\ [][NextLock]_vars

(* ------------- the threads, with room for a sample beside a batch ------ *)

\* the steps of the threads, a sample arriving whenever fewer than MaxArrivals
\* are waiting: a batch of MaxArrivals samples that is being delivered leaves
\* room for the samples that arrive meanwhile
NextBatch ==
    \/ \E t \in RxThreads, s \in Samples : SubCallbackLockIf(RoomBatch, t, s)
    \/ \E t \in RxThreads : SubCallbackTest(t)
    \/ \E t \in RxThreads : SubCallbackCall(t)
    \/ \E t \in RxThreads, now \in Times : SubCallbackPush(t, now)
    \/ \E t \in RxThreads : SubCallbackReturn(t)
    \/ \E t \in FetchThreads : FetchRegister(t)
    \/ \E t \in FetchThreads, s \in Samples : ReplyLockIf(RoomBatch, t, s)
    \/ \E t \in FetchThreads : ReplyPush(t)
    \/ \E t \in FetchThreads : DropLock(t)
    \/ \E t \in FetchThreads : DropDecrement(t)
    \/ \E t \in FetchThreads : DropTest(t)
    \/ \E t \in FetchThreads : DropCall(t)
    \/ \E t \in FetchThreads : DropCallReturn(t)
    \/ \E t \in FetchThreads : DropReturn(t)

SpecBatch == InitLock /\ [][NextBatch]_vars

(* ---------------------- the threads, scheduled fairly ------------------ *)

\* a step of thread t inside a handler, after its `zlock!`: the statements
\* that follow, the call of the callback and its return, the return of the
\* handler
HandlerStep(t) ==
    \/ SubCallbackTest(t)
    \/ SubCallbackCall(t)
    \/ \E now \in Times : SubCallbackPush(t, now)
    \/ SubCallbackReturn(t)
    \/ ReplyPush(t)
    \/ DropDecrement(t)
    \/ DropTest(t)
    \/ DropCall(t)
    \/ DropCallReturn(t)
    \/ DropReturn(t)

\* a thread that is inside a handler goes on, and the callback returns; a
\* fetch that was started drops its RepliesHandler and gets the Mutex for it.
\* Whether samples arrive and whether fetches are started is left open.
Fairness ==
    /\ WF_vars(\E t \in Threads : HandlerStep(t))
    /\ \A t \in FetchThreads : SF_vars(DropLock(t))

SpecFair == InitLock /\ [][NextLock]_vars /\ Fairness

(* ------------- a callback that calls back into the subscriber ---------- *)

\* what a callback can do with the subscriber it belongs to: start a fetch on
\* it (FetchBuilder::wait, register_handler) or have a sample routed to it on
\* its own thread (sub_callback)
Reentries == {"fetch", "live"}

\* the thread is inside the user callback, which has called into the core: the
\* thread stands at the first statement of the operation it called,
\* `zlock!(state)` of register_handler or of sub_callback
AtZlock(th) ==
    th.pc \in {o \o "_" \o r : o \in {"sub_calling", "drop_calling"}, r \in Reentries}

\* the user callback, running on thread t inside `callback.call(s)`, calls
\* fetch() on the subscriber or publishes a sample that the session routes to
\* sub_callback on the same thread
CallbackReenter(t, r) ==
    /\ Local(threads, t).pc \in {"sub_calling", "drop_calling"}
    /\ threads' = Enter(t, [Local(threads, t) EXCEPT !.pc = @ \o "_" \o r])
    /\ last' = Event("reenter_" \o r, "ok", NoSample, 0)
    /\ UNCHANGED <<state, delivered, handlers, subscriber, pc, undeclare_on_drop, mutex>>

NextReentrant ==
    \/ NextLock
    \/ \E t \in Threads, r \in Reentries : CallbackReenter(t, r)

SpecReentrant == InitLock /\ [][NextReentrant]_vars

(* ------------------------ what the claims speak of --------------------- *)

Pending == state.pending_fetches
Queue == state.merge_queue

\* this step drops a RepliesHandler (a completion handle is released)
Release == Alive(handlers') = Alive(handlers) - 1

\* the samples the sink is called with in this step, in call order
Batch == SubSeq(delivered', Len(delivered) + 1, Len(delivered'))

\* this step only adds calls of the sink to those made so far
SinkGrows ==
    /\ Len(delivered') >= Len(delivered)
    /\ SubSeq(delivered', 1, Len(delivered)) = delivered

\* the samples of a sequence
Range(seq) == {seq[i] : i \in 1..Len(seq)}

\* the timestamp under which sub_callback buffers the live sample s read at `now`
LiveKey(s, now) == IF s.ts # NoTs THEN s.ts ELSE <<now, SessionId>>

\* this step is a call of sub_callback / of the reply sink with a sample
IsLive == last'.op = "live"
IsReply == last'.op = "fetch_reply"
\* this step calls MergeQueue::push, with this sample
IsPush == IsReply \/ (IsLive /\ Pending > 0)
Pushed == IF IsReply
          THEN last'.s
          ELSE [last'.s EXCEPT !.ts = LiveKey(last'.s, last'.now)]

(* ------------------------------- claims -------------------------------- *)

\* C1: the merge queue is drained and delivered only by the release that brings
\* the pending count to 0, and wholly by it; a release that leaves the count
\* positive decrements the count by one, leaves the queue as it is and delivers
\* nothing; no other step takes a sample out of the queue.
C1_DrainOnLastReleaseOnly ==
    [][ /\ SinkGrows
        /\ Release /\ Pending > 1 =>
              /\ state'.pending_fetches = Pending - 1
              /\ state'.merge_queue = Queue
              /\ delivered' = delivered
        /\ Release /\ Pending = 1 =>
              /\ state'.pending_fetches = 0
              /\ MergeQueueLen(state'.merge_queue) = 0
              /\ Len(Batch) = MergeQueueLen(Queue)
              /\ Range(Batch) = Range(Queue.untimestamped)
                                  \cup {Queue.timstamped[k] : k \in DOMAIN Queue.timstamped}
        /\ ~Release =>
              /\ Range(Queue.untimestamped) \subseteq Range(state'.merge_queue.untimestamped)
              /\ DOMAIN Queue.timstamped \subseteq DOMAIN state'.merge_queue.timstamped
      ]_vars

\* C1 witness: two fetches overlapped, one was released and left the count at 1
\* with the queue still holding its samples and nothing delivered
C1_Witness ==
    /\ last.op = "sink_drop"
    /\ Pending = 1
    /\ MergeQueueLen(Queue) = 2
    /\ delivered = <<>>
    /\ pc = "ready"

\* C2: the sink is called only in steps that end with pending count 0, and a
\* live sample that arrives while the count is positive is kept for the merge
\* queue (its timestamp is a key of the queue afterwards) and not delivered.
C2_NoDeliveryWhilePending ==
    [][ /\ delivered' # delivered => state'.pending_fetches = 0
        /\ IsLive /\ Pending > 0 =>
              /\ delivered' = delivered
              /\ state'.pending_fetches = Pending
              /\ LiveKey(last'.s, last'.now) \in DOMAIN state'.merge_queue.timstamped
      ]_vars

\* C2 witness: a live sample arrived with a fetch pending and sits in the queue
C2_Witness ==
    /\ last.op = "live"
    /\ Pending > 0
    /\ last.s.ts # NoTs
    /\ last.s.ts \in DOMAIN Queue.timstamped
    /\ Queue.timstamped[last.s.ts] = last.s
    /\ delivered = <<>>

\* C3: a push of an untimestamped sample appends it to the untimestamped
\* partition, and the draining release hands the sink first the untimestamped
\* samples, in that order, then the timestamped ones in strictly ascending
\* order of their timestamps.
C3_DrainOrder ==
    [][ /\ IsPush /\ Pushed.ts = NoTs =>
              state'.merge_queue.untimestamped = Append(Queue.untimestamped, Pushed)
        /\ Release /\ Pending = 1 =>
              LET n == Len(Queue.untimestamped)
              IN  /\ Len(Batch) >= n
                  /\ SubSeq(Batch, 1, n) = Queue.untimestamped
                  /\ \A i \in (n + 1)..Len(Batch) : Batch[i].ts # NoTs
                  /\ \A i, j \in (n + 1)..Len(Batch) :
                        i < j => TsLess(Batch[i].ts, Batch[j].ts)
      ]_vars

\* C3 witness: the initial fetch function has dropped its sink and that release
\* drained, in one batch, an untimestamped sample followed by two timestamped
\* ones
C3_Witness ==
    /\ last.op = "fetch_sink"
    /\ pc = "fetching"
    /\ handlers.returning = 1
    /\ Alive(handlers) = 0
    /\ Len(delivered) = 3
    /\ delivered[1].ts = NoTs
    /\ delivered[2].ts # NoTs
    /\ delivered[3].ts # NoTs
    /\ delivered[2].ts[1] < delivered[3].ts[1]

\* C4: the first sample pushed with a timestamp becomes the entry of that
\* timestamp; a later push with the same timestamp leaves the queue unchanged;
\* the entry stays until the drain, which delivers it and no other sample of
\* that timestamp.
C4_FirstPushedWins ==
    [][ /\ IsPush /\ Pushed.ts # NoTs =>
              IF Pushed.ts \in DOMAIN Queue.timstamped
              THEN state' = state
              ELSE /\ Pushed.ts \in DOMAIN state'.merge_queue.timstamped
                   /\ state'.merge_queue.timstamped[Pushed.ts] = Pushed
        /\ \A ts \in DOMAIN Queue.timstamped :
              \/ /\ ts \in DOMAIN state'.merge_queue.timstamped
                 /\ state'.merge_queue.timstamped[ts] = Queue.timstamped[ts]
                 /\ delivered' = delivered
              \/ /\ Release /\ state'.pending_fetches = 0
                 /\ Cardinality({i \in 1..Len(Batch) : Batch[i].ts = ts}) = 1
                 /\ \A i \in 1..Len(Batch) :
                       Batch[i].ts = ts => Batch[i] = Queue.timstamped[ts]
      ]_vars

\* C4 witness: a reply was pushed with the timestamp of an entry of the queue
\* that holds another sample
C4_Witness ==
    /\ last.op = "fetch_reply"
    /\ last.s.ts # NoTs
    /\ last.s.ts \in DOMAIN Queue.timstamped
    /\ Queue.timstamped[last.s.ts] # last.s

\* C5: with pending count 0 a live sample is handed to the sink in the step of
\* its arrival, as it arrived, and the pending count and the queue stay as
\* they were.
C5_IdlePassThrough ==
    [][ IsLive /\ Pending = 0 =>
            /\ delivered' = Append(delivered, last'.s)
            /\ state' = state
      ]_vars

\* C5 witness: a live sample without a timestamp arrived with no fetch pending
\* and is the last sample the sink was called with
C5_Witness ==
    /\ last.op = "live"
    /\ Pending = 0
    /\ last.s.ts = NoTs
    /\ delivered # <<>>
    /\ delivered[Len(delivered)] = last.s
    /\ MergeQueueLen(Queue) = 0

\* the whole queue is handed to the sink in this step, which leaves it empty
Drained ==
    /\ MergeQueueLen(state'.merge_queue) = 0
    /\ SinkGrows
    /\ Len(Batch) = MergeQueueLen(Queue)
    /\ Range(Batch) = Range(Queue.untimestamped)
                        \cup {Queue.timstamped[k] : k \in DOMAIN Queue.timstamped}

\* this step is the return of a fetch function / the drop of a sink by the
\* owner it was moved to
IsReturn == last'.op = "fetch_return"
IsSinkDrop == last'.op = "sink_drop"
\* in this step a running fetch function drops its sink / moves it to another
\* owner
SinkDropped == last'.op = "fetch_sink" /\ last'.res = "dropped"
SinkMoved == last'.op = "fetch_sink" /\ last'.res = "moved"
\* the fetch function that returns in this step moved its sink to another
\* owner, which still holds it
SinkKept == handlers'.detached = handlers.detached + 1
\* the sinks that can be called: those of the RepliesHandler values handed to a
\* fetch function
Callable(hs) == hs.running + hs.lent + hs.detached

\* C6 as stated: whenever a fetch function returns an error, its credit has
\* been released: no RepliesHandler of that fetch is alive when fetch() returns,
\* and the pending count, which counts the handles alive, no longer counts it.
C6_Original ==
    [][ IsReturn /\ last'.res \in Errors =>
            /\ ~SinkKept
            /\ state'.pending_fetches = Alive(handlers')
      ]_vars

\* C6 amended: a fetch function that returns an error having dropped its sink
\* had its credit released by that drop, the pending count going down by
\* exactly one, and the return changes nothing more; if it moved the sink to
\* another owner that still holds it, the credit still counts at the return and
\* the count goes down by exactly one when that owner drops the sink.
C6_ErrorReleasesWithSink ==
    [][ /\ IsReturn /\ last'.res \in Errors =>
              /\ state' = state
              /\ state'.pending_fetches = Alive(handlers')
              /\ IF SinkKept
                 THEN handlers.lent > 0 /\ Alive(handlers') = Alive(handlers)
                 ELSE handlers.returning > 0 /\ handlers'.returning = handlers.returning - 1
        /\ SinkDropped => Release /\ state'.pending_fetches = Pending - 1
        /\ SinkMoved => ~Release /\ state'.pending_fetches = Pending
        /\ IsSinkDrop => Release /\ state'.pending_fetches = Pending - 1
      ]_vars

\* C6 witness: a fetch() made after construction failed and no fetch is pending
C6_Witness ==
    /\ last.op = "fetch_return"
    /\ last.res \in Errors
    /\ pc = "ready"
    /\ Pending = 0
    /\ Alive(handlers) = 0

\* C7: the error a fetch function returns is the value fetch() returns, and the
\* value `new` returns for the initial fetch, which fails construction; the
\* return changes neither the queue nor what was delivered, and the release of
\* the credit leaves the queue as it is, or, being the last release, delivers
\* all of it.
C7_ErrorReturnedSamplesKept ==
    [][ /\ IsReturn =>
              /\ \A r \in Errors, keep \in BOOLEAN :
                    FetchReturn(r, keep) =>
                        /\ last'.res = r
                        /\ pc = "fetching" => pc' = "failed"
              /\ state' = state
              /\ delivered' = delivered
        /\ Release =>
              \/ state'.merge_queue = Queue /\ delivered' = delivered
              \/ state'.pending_fetches = 0 /\ Drained
      ]_vars

\* C7 witness: the initial fetch pushed an untimestamped reply and failed with
\* the error e2; `new` returned e2 and the reply was delivered by the drain
C7_Witness ==
    /\ last.op = "fetch_return"
    /\ last.res = "e2"
    /\ pc = "failed"
    /\ Pending = 0
    /\ delivered # <<>>
    /\ delivered[1].ts = NoTs

\* C8 as stated: whenever a fetch function returns, its credit no longer
\* counts in the pending count: no RepliesHandler of that fetch is alive, and if
\* no credit is left the queue is empty.
C8_Original ==
    [][ IsReturn =>
            /\ ~SinkKept
            /\ state'.pending_fetches = 0 => MergeQueueLen(state'.merge_queue) = 0
      ]_vars

\* C8 amended: the credit of a fetch is released when the sink handed to its
\* fetch function is dropped: by the function, before it returns, or by the
\* owner it moved the sink to, which may be after it has returned; the release
\* takes the credit out of the pending count and, if it was the last credit,
\* drains and delivers the merge queue. The return itself changes nothing: a
\* function that returns with its sink alive elsewhere leaves the credit held.
C8_ReleasedWhenSinkDropped ==
    [][ /\ IsReturn =>
              /\ ~Release
              /\ state' = state
              /\ delivered' = delivered
              /\ IF SinkKept
                 THEN handlers.lent > 0 /\ state'.pending_fetches >= 1
                 ELSE handlers.returning > 0
        /\ IsReturn /\ state'.pending_fetches = 0 => MergeQueueLen(state'.merge_queue) = 0
        /\ SinkMoved => ~Release /\ state' = state /\ delivered' = delivered
        /\ SinkDropped \/ IsSinkDrop =>
              /\ Release
              /\ state'.pending_fetches = Pending - 1
              /\ state'.pending_fetches = 0 => Drained
        /\ state'.pending_fetches < Pending => Release
      ]_vars

\* C8 witness: a sink that outlived its fetch function was dropped, as the last
\* credit, and the samples of the queue were delivered
C8_Witness ==
    /\ last.op = "sink_drop"
    /\ pc = "ready"
    /\ Pending = 0
    /\ Len(delivered) = MaxSamples

\* C9 as stated: no two samples the sink was ever called with carry the same
\* timestamp.
C9_Original ==
    \A i, j \in 1..Len(delivered) :
        i < j /\ delivered[i].ts # NoTs => delivered[i].ts # delivered[j].ts

\* C9 amended: no two samples delivered by the same drain carry the same
\* timestamp.
C9_NoDuplicateInBatch ==
    [][ \A i, j \in 1..Len(Batch) :
            i < j /\ Batch[i].ts # NoTs => Batch[i].ts # Batch[j].ts
      ]_vars

\* C9 witness: one drain, the only delivery so far, delivered three timestamped
\* samples
C9_Witness ==
    /\ last.op = "fetch_sink"
    /\ pc = "fetching"
    /\ handlers.returning = 1
    /\ Alive(handlers) = 0
    /\ Len(delivered) = 3
    /\ \A i \in 1..3 : delivered[i].ts # NoTs

\* C10 as stated: of two timestamped samples the sink was ever called with, the
\* one delivered first does not have the greater timestamp.
C10_Original ==
    \A i, j \in 1..Len(delivered) :
        i < j /\ delivered[i].ts # NoTs /\ delivered[j].ts # NoTs
            => ~TsLess(delivered[j].ts, delivered[i].ts)

\* C10 amended: of two timestamped samples delivered by the same drain, the one
\* delivered first does not have the greater timestamp.
C10_BatchInTimestampOrder ==
    [][ \A i, j \in 1..Len(Batch) :
            i < j /\ Batch[i].ts # NoTs /\ Batch[j].ts # NoTs
                => ~TsLess(Batch[j].ts, Batch[i].ts)
      ]_vars

\* C10 witness: one drain, the only delivery so far, delivered two samples of
\* the same time in the order of their ids
C10_Witness ==
    /\ last.op = "sink_drop"
    /\ pc = "failed"
    /\ subscriber = "undeclared"
    /\ Alive(handlers) = 0
    /\ Len(delivered) = 2
    /\ delivered[1].ts = <<1, SessionId>>
    /\ delivered[2].ts = <<1, ZidAbove>>

\* the sequence a drain of the queue q hands to the sink
DrainSeq(q) == CallbackCallAll(MergeQueueDrain(q), <<>>)

\* C11 as stated: within a window, the sequence the drain delivers is the same
\* whichever of two received samples was pushed first, unless both are
\* untimestamped: the push of this step and any push that follows it can be
\* exchanged without changing the queue, whose content is all that the drain
\* delivers.
C11_Original ==
    [][ /\ IsPush =>
              \A s2 \in Samples :
                  Pushed.ts # NoTs \/ s2.ts # NoTs =>
                      MergeQueuePush(state'.merge_queue, s2)
                          = MergeQueuePush(MergeQueuePush(Queue, s2), Pushed)
        /\ Release /\ Pending = 1 => Batch = DrainSeq(Queue)
      ]_vars

\* C11 amended: the push of this step and any push that follows it can be
\* exchanged without changing the queue, unless both samples are untimestamped
\* or they are two different samples with the same timestamp; of two different
\* samples with the same timestamp the queue keeps the one pushed first; and
\* the draining release delivers the sequence that the queue alone determines.
C11_OrderIndependentOfArrival ==
    [][ /\ IsPush =>
              \A s2 \in Samples :
                  /\ (Pushed.ts # NoTs \/ s2.ts # NoTs)
                        /\ (s2.ts # Pushed.ts \/ s2 = Pushed) =>
                        MergeQueuePush(state'.merge_queue, s2)
                            = MergeQueuePush(MergeQueuePush(Queue, s2), Pushed)
                  /\ s2.ts = Pushed.ts /\ s2.ts # NoTs /\ s2 # Pushed
                        /\ s2.ts \notin DOMAIN Queue.timstamped =>
                        /\ MergeQueuePush(state'.merge_queue, s2).timstamped[s2.ts] = Pushed
                        /\ MergeQueuePush(MergeQueuePush(Queue, s2), Pushed).timstamped[s2.ts] = s2
        /\ Release /\ Pending = 1 => Batch = DrainSeq(Queue)
      ]_vars

\* C11 witness: in one window a reply arrived after a sample of a greater
\* timestamp, and both wait in the queue
C11_Witness ==
    /\ last.op = "fetch_reply"
    /\ Pending > 0
    /\ last.s.ts # NoTs
    /\ Cardinality(DOMAIN Queue.timstamped) = 2
    /\ Queue.timstamped[last.s.ts] = last.s
    /\ \E k \in DOMAIN Queue.timstamped : TsLess(last.s.ts, k)

\* C12 as stated: a live sample that arrives without a timestamp while a fetch
\* is pending is in the queue after its arrival, under the timestamp made for
\* it, whatever the clock reading and whatever the queue holds; the drain that
\* ends the window then delivers it with the rest of the queue.
C12_Original ==
    [][ IsLive /\ Pending > 0 /\ last'.s.ts = NoTs =>
            LET key == LiveKey(last'.s, last'.now)
            IN  /\ key \in DOMAIN state'.merge_queue.timstamped
                /\ state'.merge_queue.timstamped[key] = [last'.s EXCEPT !.ts = key]
      ]_vars

\* C12, the case that refutes it: a live sample without a timestamp arrived
\* while a fetch was pending, the timestamp made from the clock reading and the
\* session id was already a key of the queue, and the queue holds the older
\* sample of that key and not the one that arrived
C12_Witness ==
    /\ last.op = "live"
    /\ last.s.ts = NoTs
    /\ Pending > 0
    /\ <<last.now, SessionId>> \in DOMAIN Queue.timstamped
    /\ Queue.timstamped[<<last.now, SessionId>>].data # last.s.data
    /\ \A i \in 1..Len(delivered) : delivered[i].data # last.s.data

\* C13: when construction has failed before the initial fetch was run (the key
\* expression was invalid, or the live subscription could not be declared), it
\* has returned the error of the failing step, no fetch function was invoked
\* (no RepliesHandler is alive and none ever ran), the sink was called with
\* nothing, the queue is empty and the pending count is 0.
C13_FailureBeforeFetch ==
    pc = "failed" /\ subscriber = "none" =>
        /\ last.op \in {"new_register", "new_declare"}
        /\ last.res \in Errors
        /\ Pending = 0
        /\ MergeQueueLen(Queue) = 0
        /\ delivered = <<>>
        /\ handlers = [registered |-> 0, running |-> 0, lent |-> 0, returning |-> 0, detached |-> 0]

\* C13 witness: the declaration of the live subscription failed with e1 after
\* the credit of the initial fetch had been taken
C13_Witness ==
    /\ pc = "failed"
    /\ subscriber = "none"
    /\ last.op = "new_declare"
    /\ last.res = "e1"
    /\ Pending = 0

\* this step is FetchingSubscriber::undeclare / the drop of the handle
IsUndeclare == last'.op = "undeclare"
IsDrop == last'.op = "drop"

\* C14: undeclare() removes the live subscription and touches neither the
\* pending count, nor the queue, nor the sinks of the fetches in flight; after
\* it every reply is still pushed into the queue, every release still takes one
\* credit, the release of the last credit drains and delivers the whole
\* queue, and sub_callback is never called again.
C14_FetchesCompleteAfterUndeclare ==
    [][ /\ IsUndeclare =>
              /\ subscriber' = "undeclared"
              /\ state' = state
              /\ delivered' = delivered
              /\ handlers' = handlers
        /\ pc = "undeclared" =>
              /\ ~IsLive
              /\ subscriber' = "undeclared"
              /\ IsReply => state'.merge_queue = MergeQueuePush(Queue, last'.s)
              /\ Release => state'.pending_fetches = Pending - 1
              /\ Release /\ Pending = 1 => Drained
              /\ Release /\ Pending > 1 =>
                    state'.merge_queue = Queue /\ delivered' = delivered
      ]_vars

\* C14 witness: after undeclare() the sink of the last fetch in flight was
\* dropped and the samples of the queue were delivered
C14_Witness ==
    /\ pc = "undeclared"
    /\ last.op = "sink_drop"
    /\ Pending = 0
    /\ Alive(handlers) = 0
    /\ Len(delivered) = MaxSamples
    /\ delivered[1].ts = NoTs
    /\ delivered[2].ts = <<1, ZidAbove>>
    /\ delivered[3].ts = <<2, SessionId>>

\* the FetchingSubscriber is gone, and with it the receiver of a channel
\* handler: every call of the callback is a delivery to a closed sink
SinkClosed == pc \in {"undeclared", "dropped", "failed"}

\* C16: a drain that runs while the sink is closed still calls the callback
\* with every sample of the queue, in drain order, and leaves the queue empty;
\* the release that drains is the drop of a sink, which returns nothing, and
\* returns no error of its own: a fetch returns what its fetch function
\* returned.
C16_DrainNotAbortedByDeliveryFailure ==
    [][ /\ SinkClosed /\ Release /\ Pending = 1 =>
              /\ Drained
              /\ Batch = DrainSeq(Queue)
              /\ state'.pending_fetches = 0
              /\ IsSinkDrop => last'.res = "ok"
              /\ ~IsSinkDrop => SinkDropped
        /\ SinkClosed /\ IsReturn =>
              \A r \in Results, keep \in BOOLEAN :
                  FetchReturn(r, keep) => last'.res = r
      ]_vars

\* C16 witness: the handle was dropped and its subscription undeclared; the
\* last sink was dropped afterwards and the callback, its receiver gone, has
\* been called with three samples
C16_Witness ==
    /\ pc = "dropped"
    /\ undeclare_on_drop
    /\ last.op = "sink_drop"
    /\ Pending = 0
    /\ MergeQueueLen(Queue) = 0
    /\ Len(delivered) = MaxSamples
    /\ delivered[1].ts = NoTs
    /\ delivered[2].ts = NoTs
    /\ delivered[3].ts = <<1, SessionId>>

\* C18: callback and callback_mut leave the flag false, being with(callback)
\* followed by undeclare_on_drop(false); undeclare_on_drop(b) leaves it b,
\* whatever it was; nothing else changes the flag; the drop of the handle
\* undeclares the live subscription if the flag is set and leaves it declared
\* otherwise, touching neither the pending count nor the queue; after the drop
\* the subscription stays as the drop left it, and sub_callback is called
\* only if the flag is not set.
C18_UndeclareOnDropFlag ==
    [][ /\ last'.op = "builder_callback" =>
              /\ undeclare_on_drop' = FALSE
              /\ undeclare_on_drop'
                   = builder_undeclare_on_drop(builder_with(undeclare_on_drop), FALSE)
        /\ \A b \in BOOLEAN :
              BuilderUndeclareOnDrop(b) => undeclare_on_drop' = b
        /\ pc # "new" => undeclare_on_drop' = undeclare_on_drop
        /\ IsDrop =>
              /\ subscriber = "declared"
              /\ subscriber' = IF undeclare_on_drop THEN "undeclared" ELSE "declared"
              /\ state' = state /\ delivered' = delivered /\ handlers' = handlers
        /\ pc = "dropped" =>
              /\ subscriber' = subscriber
              /\ (subscriber = "declared") = ~undeclare_on_drop
              /\ IsLive => ~undeclare_on_drop
      ]_vars

\* C18 witness: the flag was not set when the handle was dropped, and a live
\* sample was delivered afterwards
C18_Witness ==
    /\ pc = "dropped"
    /\ ~undeclare_on_drop
    /\ subscriber = "declared"
    /\ last.op = "live"
    /\ Pending = 0
    /\ delivered = <<last.s>>

\* C18 witness of the other case: the flag was set, the handle was dropped with
\* nothing delivered and the sink has not been called since
C18_WitnessUndeclared ==
    /\ pc = "dropped"
    /\ undeclare_on_drop
    /\ subscriber = "undeclared"
    /\ Alive(handlers) = 0
    /\ delivered = <<>>

\* this step is a call of the reply sink with a reply that does not extract
IsReplyErr == last'.op = "fetch_reply_err"

\* C15: a reply that cannot be converted into a sample changes neither the
\* pending count, nor the queue, nor what was delivered, and ends no fetch:
\* every RepliesHandler stays where it was, the sink it was given to stays
\* callable and `new` stays where it stood; and every reply that does convert
\* is pushed into the queue, whatever came before it.
C15_ExtractionFailureSkipped ==
    [][ /\ IsReplyErr =>
              /\ state' = state
              /\ delivered' = delivered
              /\ handlers' = handlers
              /\ Callable(handlers') > 0
              /\ pc' = pc
              /\ subscriber' = subscriber
        /\ IsReply =>
              /\ state'.merge_queue = MergeQueuePush(Queue, last'.s)
              /\ state'.pending_fetches = Pending
      ]_vars

\* C15 witness: the initial fetch pushed a reply and was then handed a reply
\* that does not extract; it is still running with its sample in the queue
C15_Witness ==
    /\ last.op = "fetch_reply_err"
    /\ pc = "fetching"
    /\ handlers.running = 1
    /\ Pending = 1
    /\ MergeQueueLen(Queue) = 1
    /\ delivered = <<>>

\* C19: between the handlers, each of which runs from the taking of the lock to
\* its release, the merge queue holds a sample only if the pending count is at
\* least 1: with the count at 0 both partitions are empty.
C19_QueueEmptyWhenIdle ==
    /\ Pending >= 0
    /\ Pending = 0 =>
          /\ Queue.untimestamped = <<>>
          /\ DOMAIN Queue.timstamped = {}
    /\ MergeQueueLen(Queue) > 0 => Pending >= 1

\* C19 witness: `new` has returned, a later fetch buffered two samples and the
\* drop of its sink, the last release, left the count at 0 and the queue empty
C19_Witness ==
    /\ pc = "ready"
    /\ last.op = "fetch_sink"
    /\ Pending = 0
    /\ MergeQueueLen(Queue) = 0
    /\ Len(delivered) = 2
    /\ delivered[1].ts # NoTs
    /\ delivered[2].ts # NoTs
    /\ TsLess(delivered[1].ts, delivered[2].ts)
    /\ delivered[1].ts[2] # SessionId

\* the threads that are inside a call of the user callback
InCallback ==
    {t \in Threads : Local(threads, t).pc \in {"sub_calling", "drop_calling"}}

\* C17: at no time are two threads inside a call of the user callback, and a
\* thread that is inside one holds the Mutex of InnerState.
C17_CallbackNeverConcurrent ==
    /\ Cardinality(InCallback) <= 1
    /\ \A t \in InCallback : mutex = t

\* C17 witness: a thread that drains is inside the callback with its second
\* sample while another fetch thread, its credit released, is idle again and
\* the live threads are kept out by the Mutex
C17_Witness ==
    \E t \in FetchThreads :
        /\ Local(threads, t).pc = "drop_calling"
        /\ mutex = t
        /\ Len(delivered) = 2
        /\ Pending = 0
        /\ DOMAIN threads = {t}

\* the copies of the sample x in a sequence
Copies(x, seq) == Cardinality({i \in 1..Len(seq) : seq[i] = x})

\* the copies of x that the MergeQueueValues of the threads ts still hold
RECURSIVE BatchCopies(_, _, _)
BatchCopies(x, ths, ts) ==
    IF ts = {} THEN 0
    ELSE LET t == CHOOSE u \in ts : TRUE
         IN  Copies(x, Local(ths, t).batch.untimestamped)
               + Copies(x, Local(ths, t).batch.timstamped)
               + BatchCopies(x, ths, ts \ {t})

\* the copies of x that were accepted and are accounted for: in the queue, in a
\* drained batch not yet delivered, or delivered
Accounted(x, st, ths, sink) ==
    Copies(x, st.merge_queue.untimestamped)
      + (IF \E k \in DOMAIN st.merge_queue.timstamped : st.merge_queue.timstamped[k] = x
         THEN 1 ELSE 0)
      + BatchCopies(x, ths, Threads)
      + Copies(x, sink)

\* this step accepts the sample x: hands it to the callback as it arrives, or
\* pushes it into the queue where no sample of its timestamp is
Accepts(x) ==
    /\ last'.s = x
    /\ \/ last'.op = "sub_call"
       \/ /\ last'.op \in {"sub_push", "reply_push"}
          /\ x.ts = NoTs \/ x.ts \notin DOMAIN Queue.timstamped

\* C20: under every interleaving of the statements of concurrent releases,
\* live-sample callbacks and reply sinks, each step that accepts a sample adds
\* one copy of it to the queue or the sink, and no other step adds or removes a
\* copy anywhere: a sample leaves the queue only into the batch of the one
\* release that drains it and leaves the batch only into the sink, so none is
\* delivered twice and none is lost; and once every thread is out of its
\* handler nothing is left behind: the count is 0 and the queue is empty.
C20_ReleaseAtomic ==
    [][ /\ SinkGrows
        /\ \A x \in Samples :
              Accounted(x, state', threads', delivered')
                = Accounted(x, state, threads, delivered) + (IF Accepts(x) THEN 1 ELSE 0)
        /\ threads' = NoThreads =>
              /\ state'.pending_fetches = 0
              /\ MergeQueueLen(state'.merge_queue) = 0
      ]_vars

\* C20 witness: two fetches were released one after the other while a live
\* sample and a reply were buffered; the second release drained both and every
\* thread is out of its handler
C20_Witness ==
    /\ last.op = "drop_return"
    /\ threads = NoThreads
    /\ Pending = 0
    /\ Len(delivered) = 2
    /\ delivered[1].ts = NoTs
    /\ delivered[2].ts = <<1, SessionId>>

\* C21 as stated: a thread that is inside a call of the user callback, on the
\* pass-through path of sub_callback or in the drain loop of the release, does
\* not hold the Mutex of InnerState.
C21_Original ==
    \A t \in InCallback : mutex # t

\* C21 witness: a session thread is inside the callback with a live sample that
\* arrived with no fetch pending, and holds the Mutex; nothing was drained
C21_Witness ==
    \E t \in RxThreads :
        /\ Local(threads, t).pc = "sub_calling"
        /\ mutex = t
        /\ Pending = 0
        /\ delivered = <<Local(threads, t).s>>

\* the threads whose fetch function is running: registered, outside the reply
\* sink and not yet releasing
FetchRunning == {t \in FetchThreads : Local(threads, t).pc = "fetch"}

\* C22: a thread whose fetch function is running does not hold the Mutex of
\* InnerState, and when every thread inside the core is running its fetch
\* function the Mutex is free, so that a live sample or another fetch can take
\* it: the lock is held only inside the increment and inside each reply push.
C22_LockFreeWhileFetchRuns ==
    /\ \A t \in FetchRunning : mutex # t
    /\ (DOMAIN threads = FetchRunning) => mutex = NoThread

\* C22 witness: both fetch functions are running and, meanwhile, a session
\* thread has taken the lock, buffered a live sample and returned
C22_Witness ==
    /\ FetchRunning = FetchThreads
    /\ DOMAIN threads = FetchThreads
    /\ last.op = "sub_return"
    /\ Pending = MaxFetches
    /\ MergeQueueLen(Queue) = 1
    /\ mutex = NoThread

\* the threads that have drained the queue and have not yet returned from the
\* release
Draining ==
    {t \in FetchThreads : Local(threads, t).pc \in {"drop_drain", "drop_calling"}}

\* this step enters a handler: sub_callback or the reply sink with a sample
\* that arrives, register_handler with a fetch that starts, the drop of
\* another RepliesHandler
EntersHandler == last'.op \in {"sub_lock", "reply_lock", "register", "drop_lock"}

\* C23: from the drain of a release until that release returns, the draining
\* thread holds the Mutex and no other thread enters a handler: a sample that
\* arrives meanwhile waits at the lock; the only calls of the sink are those
\* of the draining thread, each with the next sample of its batch, so that no
\* live sample and no sample of a later window comes between two samples of
\* the batch and whatever arrives after the drain is delivered after the
\* batch; and the release returns only when its batch has been delivered
\* completely.
C23_BatchContiguous ==
    [][ \A t \in Draining :
            /\ mutex = t
            /\ ~EntersHandler
            /\ delivered' # delivered =>
                  LET n == MergeQueueValuesNext(Local(threads, t).batch)
                  IN  /\ Local(threads, t).pc = "drop_drain"
                      /\ n.item # NoSample
                      /\ delivered' = Append(delivered, n.item)
                      /\ Local(threads', t).pc = "drop_calling"
                      /\ Local(threads', t).batch = n.rest
            /\ t \notin DOMAIN threads' => InHand(Local(threads, t)) = 0
      ]_vars

\* C23 witness: a release has drained a batch of two timestamped samples and
\* is inside the callback with the first, the second still to come; there is
\* room for a third sample, which a session thread stands ready to bring, but
\* the Mutex keeps every arrival out
C23_Witness ==
    \E t \in FetchThreads :
        /\ Local(threads, t).pc = "drop_calling"
        /\ mutex = t
        /\ Len(delivered) = 1
        /\ delivered[1].ts # NoTs
        /\ Len(Local(threads, t).batch.timstamped) = 1
        /\ TsLess(delivered[1].ts, Local(threads, t).batch.timstamped[1].ts)
        /\ RoomBatch
        /\ ~ ENABLED (\E r \in RxThreads, s \in Samples :
                          SubCallbackLockIf(RoomBatch, r, s))

\* this step creates a RepliesHandler (a credit is taken)
Acquire == Alive(handlers') = Alive(handlers) + 1

\* C24: the pending count moves only by one and only with a RepliesHandler: up
\* by one exactly when one is created, down by one exactly when one is dropped,
\* so that no credit is given back twice or without its handle; a fetch
\* function that drops its sink has its credit released by that drop, whether
\* or not it called the sink, one that moved the sink away has it released when
\* that sink is dropped, and the return of the function, whatever it returns,
\* releases nothing more.
C24_CreditReleasedExactlyOnce ==
    [][ /\ Acquire <=> state'.pending_fetches = Pending + 1
        /\ Release <=> state'.pending_fetches = Pending - 1
        /\ state'.pending_fetches \in {Pending - 1, Pending, Pending + 1}
        /\ Alive(handlers') \in {Alive(handlers) - 1, Alive(handlers), Alive(handlers) + 1}
        /\ last'.op = "fetch_sink" =>
              /\ handlers'.running = handlers.running - 1
              /\ Release <=> SinkDropped
        /\ IsReturn =>
              /\ last'.res \in Results
              /\ ~Release /\ ~Acquire
              /\ SinkKept \/ handlers'.returning = handlers.returning - 1
        /\ IsSinkDrop =>
              /\ Release
              /\ \/ handlers'.detached = handlers.detached - 1
                 \/ handlers'.lent = handlers.lent - 1
      ]_vars

\* C24 witness: after construction a fetch function returned an error without
\* ever calling its sink, and its credit is back: no handle and no fetch pending
C24_Witness ==
    /\ last.op = "fetch_return"
    /\ last.res = "e1"
    /\ pc = "ready"
    /\ Alive(handlers) = 0
    /\ Pending = 0
    /\ delivered = <<>>
    /\ MergeQueueLen(Queue) = 0

\* C25: a call of the reply sink with a sample finds the pending count at least
\* 1, the credit of its fetch being one of those held, leaves the count and the
\* sink calls made so far as they are, and pushes the sample as it came: a reply
\* without a timestamp goes to the end of the untimestamped partition with no
\* timestamp made for it, a reply with a timestamp goes under that timestamp
\* unless the queue already holds a sample under it.
C25_RepliesAlwaysBuffered ==
    [][ IsReply =>
          /\ Pending >= 1
          /\ Callable(handlers) >= 1
          /\ handlers' = handlers
          /\ state'.pending_fetches = Pending
          /\ delivered' = delivered
          /\ state'.merge_queue = MergeQueuePush(Queue, last'.s)
          /\ last'.s.ts = NoTs =>
                /\ state'.merge_queue.untimestamped = Append(Queue.untimestamped, last'.s)
                /\ state'.merge_queue.timstamped = Queue.timstamped
          /\ last'.s.ts # NoTs =>
                /\ state'.merge_queue.untimestamped = Queue.untimestamped
                /\ DOMAIN state'.merge_queue.timstamped
                      = DOMAIN Queue.timstamped \cup {last'.s.ts}
                /\ last'.s.ts \notin DOMAIN Queue.timstamped =>
                      state'.merge_queue.timstamped[last'.s.ts] = last'.s
      ]_vars

\* C25 witness: a reply without a timestamp came through a sink that outlived
\* its fetch function, the only credit held, and waits in the untimestamped
\* partition; nothing was delivered
C25_Witness ==
    /\ last.op = "fetch_reply"
    /\ last.s.ts = NoTs
    /\ pc = "ready"
    /\ handlers.detached = 1
    /\ handlers.running = 0
    /\ Pending = 1
    /\ Queue.untimestamped = <<last.s>>
    /\ DOMAIN Queue.timstamped = {}
    /\ delivered = <<>>

\* the live sample of this step as sub_callback buffers it
Stamped == [last'.s EXCEPT !.ts = LiveKey(last'.s, last'.now)]

\* C26 as stated: a live sample that arrives while a fetch is pending is in the
\* timestamped partition afterwards, under its own timestamp or, if it has
\* none, under (clock reading, local session id), otherwise unchanged; the
\* untimestamped partition grows only by fetch replies.
C26_Original ==
    [][ /\ IsLive /\ Pending > 0 =>
              /\ Stamped.ts \in DOMAIN state'.merge_queue.timstamped
              /\ state'.merge_queue.timstamped[Stamped.ts] = Stamped
              /\ state'.merge_queue.untimestamped = Queue.untimestamped
        /\ Len(state'.merge_queue.untimestamped) > Len(Queue.untimestamped) =>
              IsReply /\ last'.s.ts = NoTs
      ]_vars

\* C26 amended: a live sample that arrives while a fetch is pending is pushed
\* to the timestamped partition, under its own timestamp or, if it has none,
\* under (clock reading, local session id), with its data unchanged; it enters
\* the partition if no sample is held under that timestamp, and otherwise the
\* queue stays as it was, keeping the sample it held; the untimestamped
\* partition is left alone and grows only by fetch replies without timestamp.
C26_LiveBufferedTimestamped ==
    [][ /\ IsLive /\ Pending > 0 =>
              /\ Stamped.ts # NoTs
              /\ Stamped.data = last'.s.data
              /\ last'.s.ts # NoTs => Stamped = last'.s
              /\ last'.s.ts = NoTs => Stamped.ts = <<last'.now, SessionId>>
              /\ state'.merge_queue.untimestamped = Queue.untimestamped
              /\ IF Stamped.ts \in DOMAIN Queue.timstamped
                 THEN state'.merge_queue = Queue
                 ELSE /\ DOMAIN state'.merge_queue.timstamped
                            = DOMAIN Queue.timstamped \cup {Stamped.ts}
                      /\ state'.merge_queue.timstamped[Stamped.ts] = Stamped
                      /\ \A k \in DOMAIN Queue.timstamped :
                            state'.merge_queue.timstamped[k] = Queue.timstamped[k]
        /\ Len(state'.merge_queue.untimestamped) > Len(Queue.untimestamped) =>
              /\ IsReply /\ last'.s.ts = NoTs
              /\ state'.merge_queue.untimestamped = Append(Queue.untimestamped, last'.s)
      ]_vars

\* C26 witness: a live sample without a timestamp arrived at clock reading 2
\* while a reply without a timestamp was waiting; it sits in the timestamped
\* partition under (2, local session id) and the reply is alone in the other
C26_Witness ==
    /\ last.op = "live"
    /\ last.s.ts = NoTs
    /\ last.now = 2
    /\ Pending > 0
    /\ DOMAIN Queue.timstamped = {<<2, SessionId>>}
    /\ Queue.timstamped[<<2, SessionId>>] = [last.s EXCEPT !.ts = <<2, SessionId>>]
    /\ Len(Queue.untimestamped) = 1

\* the sample a comes before the sample b in the sequence
Before(a, b, seq) ==
    \E i, j \in 1..Len(seq) : i < j /\ seq[i] = a /\ seq[j] = b

\* the drain delivers the timestamped samples of the queue in the order of their
\* time values: this step, if it is the draining release, hands the sink the
\* sequence that the queue determines, in which a timestamped sample of an
\* earlier time value comes before one of a later time value
DrainByTime ==
    Release /\ Pending = 1 =>
        /\ Batch = DrainSeq(Queue)
        /\ \A i, j \in 1..Len(Batch) :
              /\ Batch[i].ts # NoTs
              /\ Batch[j].ts # NoTs
              /\ Batch[i].ts[1] < Batch[j].ts[1]
              => i < j

\* C27 as stated: a live sample that arrives without a timestamp while a fetch
\* is pending is held for the drain of the window under (clock reading, local
\* session id), and that drain delivers it after every timestamped reply whose
\* time value is earlier than the clock reading, whether the reply was pushed
\* before the live sample or after it.
C27_Original ==
    [][ /\ IsLive /\ Pending > 0 /\ last'.s.ts = NoTs =>
              /\ Stamped \in Range(DrainSeq(state'.merge_queue))
              /\ \A k \in DOMAIN Queue.timstamped :
                    k[1] < last'.now =>
                        Before(Queue.timstamped[k], Stamped, DrainSeq(state'.merge_queue))
        /\ IsReply /\ last'.s.ts # NoTs /\ last'.s.ts \notin DOMAIN Queue.timstamped =>
              \A k \in DOMAIN Queue.timstamped :
                  last'.s.ts[1] < k[1] =>
                      Before(last'.s, Queue.timstamped[k], DrainSeq(state'.merge_queue))
        /\ DrainByTime
      ]_vars

\* C27, the order alone: a live sample stamped on arrival that the queue keeps
\* comes, in the drain, after every timestamped sample of an earlier time
\* value, whichever was pushed first.
C27_OrderAmongKept ==
    [][ /\ IsLive /\ Pending > 0 /\ last'.s.ts = NoTs
              /\ Stamped.ts \notin DOMAIN Queue.timstamped =>
              /\ Stamped \in Range(DrainSeq(state'.merge_queue))
              /\ \A k \in DOMAIN Queue.timstamped :
                    k[1] < last'.now =>
                        Before(Queue.timstamped[k], Stamped, DrainSeq(state'.merge_queue))
        /\ IsReply /\ last'.s.ts # NoTs /\ last'.s.ts \notin DOMAIN Queue.timstamped =>
              \A k \in DOMAIN Queue.timstamped :
                  last'.s.ts[1] < k[1] =>
                      Before(last'.s, Queue.timstamped[k], DrainSeq(state'.merge_queue))
        /\ DrainByTime
      ]_vars

\* C27, the case that refutes it: in one window a reply of time value 1 and a
\* sample stamped (2, local session id) are waiting, and a live sample without a
\* timestamp has arrived at clock reading 2; the queue holds the older sample
\* under that timestamp and the one that arrived is in neither partition
C27_Witness ==
    /\ last.op = "live"
    /\ last.s.ts = NoTs
    /\ last.now = 2
    /\ Pending > 0
    /\ \E k \in DOMAIN Queue.timstamped : k[1] = 1
    /\ <<2, SessionId>> \in DOMAIN Queue.timstamped
    /\ [last.s EXCEPT !.ts = <<2, SessionId>>] \notin Range(DrainSeq(Queue))
    /\ delivered = <<>>

\* C28: in `new` the credit of the initial fetch is taken before the live
\* subscription is declared: the step that declares it finds the pending count
\* at least 1 and leaves it alone; the initial fetch function is entered with
\* the count at least 1, and as long as its RepliesHandler is alive the count
\* stays at least 1 and the sink has been called with nothing, a live sample
\* that arrives is pushed into the queue and not delivered, and if the function
\* returns with its sink alive elsewhere the credit is still held and nothing is
\* delivered; the sink is called only by a step that ends with the count at 0.
C28_StartsReconciling ==
    [][ /\ subscriber = "none" /\ subscriber' = "declared" =>
              /\ Pending >= 1
              /\ handlers.registered = 1
              /\ state' = state
              /\ delivered' = <<>>
        /\ pc # "fetching" /\ pc' = "fetching" =>
              /\ subscriber' = "declared"
              /\ state'.pending_fetches >= 1
              /\ handlers'.running = 1
              /\ delivered' = <<>>
        /\ pc' = "fetching" /\ Alive(handlers') >= 1 =>
              /\ state'.pending_fetches >= 1
              /\ delivered' = <<>>
        /\ pc = "fetching" /\ Alive(handlers) >= 1 /\ IsLive =>
              /\ delivered' = delivered
              /\ state'.pending_fetches = Pending
              /\ LiveKey(last'.s, last'.now) \in DOMAIN state'.merge_queue.timstamped
        /\ pc = "fetching" /\ IsReturn /\ SinkKept =>
              /\ state'.pending_fetches >= 1
              /\ delivered' = <<>>
        /\ delivered' # delivered => state'.pending_fetches = 0
      ]_vars

\* C28 witness: `new` is inside the initial fetch function, a live sample
\* without a timestamp has arrived on the new subscription and waits in the
\* queue, stamped; the sink has been called with nothing
C28_Witness ==
    /\ pc = "fetching"
    /\ subscriber = "declared"
    /\ last.op = "live"
    /\ last.s.ts = NoTs
    /\ Pending = 1
    /\ DOMAIN Queue.timstamped = {<<last.now, SessionId>>}
    /\ Queue.untimestamped = <<>>
    /\ delivered = <<>>

\* the copies of the sample x that the queue q holds
Held(x, q) ==
    Copies(x, q.untimestamped)
      + (IF \E k \in DOMAIN q.timstamped : q.timstamped[k] = x THEN 1 ELSE 0)

\* C29: the drain of the draining release leaves both partitions of the queue
\* empty, len() = 0, in the step that takes them; the sequence it returns is as
\* long as the queue was and holds each sample the queue held as many times as
\* the queue held it, and nothing else; it is what the sink is called with. A
\* push changes the queue only, never what was handed to the sink, and the
\* first push after a drain finds a queue that holds nothing: the sample goes
\* in whatever the drained samples were.
C29_DrainTakesAll ==
    [][ /\ Release /\ Pending = 1 =>
              LET values == MergeQueueDrain(Queue)
              IN  /\ state'.merge_queue = MergeQueueAfterDrain(Queue)
                  /\ state'.merge_queue.untimestamped = <<>>
                  /\ DOMAIN state'.merge_queue.timstamped = {}
                  /\ MergeQueueLen(state'.merge_queue) = 0
                  /\ Len(values.untimestamped) + Len(values.timstamped)
                        = MergeQueueLen(Queue)
                  /\ SinkGrows
                  /\ Len(Batch) = MergeQueueLen(Queue)
                  /\ \A x \in Samples : Copies(x, Batch) = Held(x, Queue)
        /\ IsPush =>
              /\ delivered' = delivered
              /\ state'.merge_queue = MergeQueuePush(Queue, Pushed)
              /\ MergeQueueLen(Queue) = 0 =>
                    /\ MergeQueueLen(state'.merge_queue) = 1
                    /\ Held(Pushed, state'.merge_queue) = 1
      ]_vars

\* C29 witness: a drain delivered an untimestamped and a timestamped sample;
\* a reply that carries the timestamp of the delivered one came afterwards and
\* is the only sample of the queue: the map it went into is a new one
C29_Witness ==
    /\ last.op = "fetch_reply"
    /\ Pending = 1
    /\ Len(delivered) = 2
    /\ delivered[1].ts = NoTs
    /\ delivered[2].ts # NoTs
    /\ last.s.ts = delivered[2].ts
    /\ last.s # delivered[2]
    /\ MergeQueueLen(Queue) = 1
    /\ Held(last.s, Queue) = 1

\* C30: between the handlers the pending count is the number of RepliesHandler
\* values created and not yet dropped: it is never negative, and it is 0
\* exactly when no RepliesHandler is alive, wherever the alive ones are (held by
\* `new`, by a running fetch function or by the owner a sink was moved to).
C30_PendingCountsHandles ==
    /\ Pending = Alive(handlers)
    /\ Pending = handlers.registered + handlers.running + handlers.lent
                    + handlers.detached
    /\ handlers.registered >= 0 /\ handlers.running >= 0
    /\ handlers.lent >= 0 /\ handlers.detached >= 0
    /\ Pending >= 0
    /\ Pending = 0 <=> Alive(handlers) = 0

\* C30 witness: two fetches are outstanding, one inside its fetch function and
\* one whose sink outlived its fetch function, and the count is 2
C30_Witness ==
    /\ pc = "ready"
    /\ handlers.running = 1
    /\ handlers.detached = 1
    /\ Pending = 2
    /\ last.op = "fetch_start"

\* C31 as stated: once construction has returned an error, whatever the step
\* that failed and whatever the undeclare-on-drop flag, no live subscription of
\* this subscriber is declared, and no live sample reaches sub_callback.
C31_Original ==
    /\ pc = "failed" => subscriber # "declared"
    /\ pc = "failed" => last.op # "live"

\* C31, the case that refutes it: the flag is off, the initial fetch function
\* returned an error after the subscription was declared, `new` has returned
\* that error, the subscription is still declared and a live sample that came
\* afterwards has been handed to the sink
C31_Witness ==
    /\ pc = "failed"
    /\ ~undeclare_on_drop
    /\ subscriber = "declared"
    /\ last.op = "live"
    /\ Pending = 0
    /\ delivered # <<>>
    /\ delivered[Len(delivered)] = last.s

\* C32 as stated: a callback that calls back into the subscriber on the thread
\* that delivers to it does not deadlock: the thread, standing at the
\* `zlock!` of the operation it called, does not wait for a Mutex that it
\* holds itself, so that the operation and then the delivery can complete.
C32_Original ==
    \A t \in Threads : AtZlock(Local(threads, t)) => mutex # t

\* C32, the case that refutes it: the release that drains is inside the
\* callback with the first sample of its batch, the callback has called
\* fetch() on the subscriber, and the thread stands at the `zlock!` of
\* register_handler while holding the Mutex: no step of any thread is left
C32_Witness ==
    \E t \in FetchThreads :
        /\ Local(threads, t).pc = "drop_calling_fetch"
        /\ mutex = t
        /\ Len(delivered) = 1
        /\ Pending = 0
        /\ DOMAIN threads = {t}
        /\ ~ ENABLED NextLock

\* the Idle state: no fetch pending and nothing in the merge queue
Idle == Pending = 0 /\ MergeQueueLen(Queue) = 0

\* this step starts a fetch
StartsFetch == \E t \in FetchThreads : FetchRegister(t)

\* the thread is inside sub_callback, inside the reply sink or inside the drop
\* of a RepliesHandler
InHandler(t) ==
    t \in DOMAIN threads /\ Local(threads, t).pc # "fetch"

\* C33 as stated: if every started fetch releases its credit and the sink
\* always returns, the subscriber always comes back to the Idle state, pending
\* count 0 and empty queue, and every sample held in the queue is delivered.
C33_Original ==
    /\ []<>Idle
    /\ \A x \in Samples : (Held(x, Queue) > 0) ~> (Copies(x, delivered) > 0)

\* C33 amended: if every started fetch releases its credit and the sink
\* always returns, every call of sub_callback, of the reply sink and of the
\* release returns; and if moreover fetches are not started for ever, the
\* subscriber comes back to the Idle state, pending count 0 and empty queue,
\* and every sample held in the queue is delivered.
C33_EventuallyIdle ==
    /\ \A t \in Threads : InHandler(t) ~> ~InHandler(t)
    /\ (<>[][~StartsFetch]_vars) =>
          /\ []<>Idle
          /\ \A x \in Samples : (Held(x, Queue) > 0) ~> (Copies(x, delivered) > 0)

\* C33 witness: the release that drains has returned, the two samples that were
\* held are delivered and the subscriber is idle with no thread inside a handler
C33_Witness ==
    /\ Idle
    /\ last.op = "drop_return"
    /\ threads = NoThreads
    /\ handlers.running = 0
    /\ Len(delivered) = MaxArrivals
    /\ delivered[1].ts = NoTs
    /\ delivered[2].ts = NoTs

\* the live sample of the call of sub_callback that ran last, as it was pushed
StampedBefore == [last.s EXCEPT !.ts = LiveKey(last.s, last.now)]

\* the call of sub_callback that ran last and the one of this step are two
\* arrivals, one after the other, of live samples without timestamp in one
\* window (no fetch was registered or released between them)
TwoArrivals ==
    /\ last.op = "live" /\ last.s.ts = NoTs
    /\ IsLive /\ last'.s.ts = NoTs
    /\ Pending > 0

\* C34 as stated: when two live samples without timestamps arrive one after the
\* other while a fetch is pending, the drain of the window delivers both, the
\* first before the second: after the second arrival the sequence the drain
\* delivers holds the first before the second, and the draining release hands
\* the sink exactly that sequence.
C34_Original ==
    [][ /\ TwoArrivals => Before(StampedBefore, Stamped, DrainSeq(state'.merge_queue))
        /\ Release /\ Pending = 1 => Batch = DrainSeq(Queue)
      ]_vars

\* C34, where the order is kept: when the clock reading of the second arrival
\* is later than that of the first and the queue kept the first and holds no
\* sample under the timestamp made for the second, the drain delivers both, the
\* first before the second.
C34_OrderWhenClockAdvances ==
    [][ /\ TwoArrivals
            /\ last.now < last'.now
            /\ StampedBefore \in Range(DrainSeq(Queue))
            /\ Stamped.ts \notin DOMAIN Queue.timstamped =>
                Before(StampedBefore, Stamped, DrainSeq(state'.merge_queue))
        /\ Release /\ Pending = 1 => Batch = DrainSeq(Queue)
      ]_vars

\* C34, the case that refutes it: in one window a live sample without a
\* timestamp has arrived at clock reading 1, after the sample that the queue
\* holds under (2, local session id); the drain will deliver the sample that
\* arrived last before the other
C34_Witness ==
    /\ last.op = "live"
    /\ last.s.ts = NoTs
    /\ last.now = 1
    /\ Pending > 0
    /\ Queue.untimestamped = <<>>
    /\ DOMAIN Queue.timstamped = {<<1, SessionId>>, <<2, SessionId>>}
    /\ Queue.timstamped[<<1, SessionId>>].data = last.s.data
    /\ Queue.timstamped[<<2, SessionId>>].data # last.s.data
    /\ DrainSeq(Queue)[1].data = last.s.data
    /\ delivered = <<>>

====
